---- MODULE Spec2Model ----
(***************************************************************************)
(* Quiz-System (src/app.py): the Flask handlers /generate, /quiz, /submit  *)
(* and /results over one session, and the quiz-generation engine they      *)
(* call (clean_text, tokenize, build_choices, generate_question,           *)
(* generate_quiz_from_text).                                               *)
(*                                                                         *)
(* Text is a sequence of one-character strings, so that the regular        *)
(* expressions and string methods of the source are computed character by  *)
(* character.  The process-wide random generator is a cyclic tape of       *)
(* draws fixed at start-up (the seed) and a position that every draw       *)
(* advances; _randbelow(k) is the tape entry modulo k.                     *)
(***************************************************************************)
EXTENDS Integers, Sequences, FiniteSets, TLC

VARIABLES
    session_quiz,     \* session["quiz"]: <<>> when absent, else <<quiz>>
    session_results,  \* session["results"]: <<>> when absent, else <<results>>
    answers,          \* the "answer" entries popped at app.py:152-153, kept for the stored quiz
    rngTape,          \* the random module's stream of draws (fixed by the seed)
    rngPos,           \* the number of draws made so far, modulo the tape length
    request,         \* the request the last handler served
    response          \* what the last handler returned

vars == <<session_quiz, session_results, answers, rngTape, rngPos, request, response>>

----------------------------------------------------------------------------
(* Bounds of the model                                                     *)

\* length of the cyclic tape of random draws
TapeLen == 2

\* the values a tape entry takes: enough for every _randbelow(k), k <= 4
RandVals == {0, 1, 2, 3}

----------------------------------------------------------------------------
(* Characters                                                              *)

UpperLetters ==
    <<"A","B","C","D","E","F","G","H","I","J","K","L","M",
      "N","O","P","Q","R","S","T","U","V","W","X","Y","Z">>

LowerLetters ==
    <<"a","b","c","d","e","f","g","h","i","j","k","l","m",
      "n","o","p","q","r","s","t","u","v","w","x","y","z">>

Range(s) == {s[i] : i \in 1..Len(s)}

Min(a, b) == IF a < b THEN a ELSE b

Max(a, b) == IF a > b THEN a ELSE b

\* \s of the re module, over the characters the inputs use
Whitespace == {" ", "\n", "\t"}

Letters == Range(UpperLetters) \cup Range(LowerLetters)

\* [A-Za-z]
IsLetter(c) == c \in Letters

\* [A-Za-z']
IsWordChar(c) == IsLetter(c) \/ c = "'"

Digits == <<"0","1","2","3","4","5","6","7","8","9">>

DigitSet == Range(Digits)

IsDigit(c) == c \in DigitSet

DigitValue(c) == (CHOOSE i \in 1..10 : Digits[i] = c) - 1

\* the lower-case letter of every letter
LowerOf ==
    [c \in Letters |->
        IF \E i \in 1..26 : UpperLetters[i] = c
        THEN LowerLetters[CHOOSE i \in 1..26 : UpperLetters[i] = c]
        ELSE c]

\* str.lower() on one character
LowerChar(c) == IF c \in Letters THEN LowerOf[c] ELSE c

\* str.lower()
lower(w) == [i \in 1..Len(w) |-> LowerChar(w[i])]

\* str.strip(): leading and trailing whitespace removed
RECURSIVE LStrip(_)
LStrip(s) ==
    IF s # <<>> /\ s[1] \in Whitespace THEN LStrip(Tail(s)) ELSE s

RECURSIVE RStrip(_)
RStrip(s) ==
    IF s # <<>> /\ s[Len(s)] \in Whitespace
    THEN RStrip(SubSeq(s, 1, Len(s) - 1))
    ELSE s

strip(s) == RStrip(LStrip(s))

\* len(s.split()): the number of maximal runs of non-whitespace characters
WordCount(s) ==
    Cardinality({i \in 1..Len(s) :
        /\ s[i] \notin Whitespace
        /\ (i = 1 \/ s[i-1] \in Whitespace)})

\* int(x) of a str: surrounding whitespace stripped, an optional sign, then
\* decimal digits; anything else raises ValueError.
IsIntLiteral(s) ==
    LET t == strip(s)
        d == IF t # <<>> /\ t[1] \in {"+", "-"} THEN Tail(t) ELSE t
    IN  d # <<>> /\ \A i \in 1..Len(d) : IsDigit(d[i])

RECURSIVE DigitsValue(_)
DigitsValue(d) ==
    IF d = <<>> THEN 0
    ELSE 10 * DigitsValue(SubSeq(d, 1, Len(d) - 1)) + DigitValue(d[Len(d)])

IntValue(s) ==
    LET t == strip(s)
    IN  IF t[1] = "-" THEN 0 - DigitsValue(Tail(t))
        ELSE IF t[1] = "+" THEN DigitsValue(Tail(t))
        ELSE DigitsValue(t)

----------------------------------------------------------------------------
(* Module constants                                                        *)

DefinitelyTrue ==
    <<"D","e","f","i","n","i","t","e","l","y"," ","t","r","u","e">>

LikelyTrue ==
    <<"L","i","k","e","l","y"," ","t","r","u","e">>

Unlikely ==
    <<"U","n","l","i","k","e","l","y">>

DefinitelyFalse ==
    <<"D","e","f","i","n","i","t","e","l","y"," ","f","a","l","s","e">>

DEFAULT_CHOICES == <<DefinitelyTrue, LikelyTrue, Unlikely, DefinitelyFalse>>

ExtPdf == <<".","p","d","f">>

ExtPpt == <<".","p","p","t">>

ExtPptx == <<".","p","p","t","x">>

ALLOWED_EXTENSIONS == {ExtPdf, ExtPpt, ExtPptx}

Blank ==
    <<"_","_","_","_","_">>

FillerPrompt ==
    <<"W","h","i","c","h"," ","w","o","r","d"," ","a","p","p","e","a","r","e",
      "d"," ","i","n"," ","t","h","e"," ","s","t","u","d","y"," ","m","a","t",
      "e","r","i","a","l","?">>

----------------------------------------------------------------------------
(* Text normalisation and lexical analysis                                 *)

\* re.sub(r"\s+", " ", text): every maximal run of whitespace becomes one
\* space, that is, a whitespace character that follows another is dropped and
\* the others become " "
CollapseWhitespace(text) ==
    LET kept == SelectSeq([i \in 1..Len(text) |-> i],
                          LAMBDA i : ~(text[i] \in Whitespace /\ i > 1
                                          /\ text[i-1] \in Whitespace))
    IN  [k \in 1..Len(kept) |->
            IF text[kept[k]] \in Whitespace THEN " " ELSE text[kept[k]]]

clean_text(text) == strip(CollapseWhitespace(text))

\* the first index >= i of s that is not whitespace (Len(s) + 1 if none)
RECURSIVE SkipWhitespace(_, _)
SkipWhitespace(s, i) ==
    IF i <= Len(s) /\ s[i] \in Whitespace THEN SkipWhitespace(s, i + 1) ELSE i

Least(S) == CHOOSE x \in S : \A y \in S : x <= y

\* where (?<=[.!?])\s+ matches: the whitespace characters that follow one of
\* . ! ? (each starts a match, which runs to the end of the whitespace)
SeparatorStarts(s) ==
    {i \in 2..Len(s) : s[i] \in Whitespace /\ s[i-1] \in {".", "!", "?"}}

\* re.split(r"(?<=[.!?])\s+", s), from index i on
RECURSIVE SplitAfterPunctuation(_, _)
SplitAfterPunctuation(s, i) ==
    LET later == {k \in SeparatorStarts(s) : k >= i}
    IN  IF later = {} THEN <<SubSeq(s, i, Len(s))>>
        ELSE <<SubSeq(s, i, Least(later) - 1)>>
                 \o SplitAfterPunctuation(s, SkipWhitespace(s, Least(later)))

\* the least number of whitespace-separated words of a sentence (app.py:113)
MinSentenceWords == 4

\* [s.strip() for s in re.split(...) if len(s.split()) >= 4]
RECURSIVE KeepLongSentences(_)
KeepLongSentences(pieces) ==
    IF pieces = <<>> THEN <<>>
    ELSE IF WordCount(Head(pieces)) >= MinSentenceWords
         THEN <<strip(Head(pieces))>> \o KeepLongSentences(Tail(pieces))
         ELSE KeepLongSentences(Tail(pieces))

\* app.py:113-115
Sentences(cleaned) ==
    LET kept == KeepLongSentences(SplitAfterPunctuation(cleaned, 1))
    IN  IF kept = <<>> THEN <<cleaned>> ELSE kept

\* the last index of the run of [A-Za-z'] characters that holds index i
RECURSIVE WordEnd(_, _)
WordEnd(text, i) ==
    IF i < Len(text) /\ IsWordChar(text[i+1]) THEN WordEnd(text, i + 1) ELSE i

\* whether [A-Za-z][A-Za-z']+ matches at index i
TokenStartsAt(text, i) ==
    i < Len(text) /\ IsLetter(text[i]) /\ IsWordChar(text[i+1])

\* the first index >= i where a token starts (Len(text) + 1 if none)
RECURSIVE NextTokenStart(_, _)
NextTokenStart(text, i) ==
    IF i > Len(text) \/ TokenStartsAt(text, i) THEN i
    ELSE NextTokenStart(text, i + 1)

\* re.findall(r"[A-Za-z][A-Za-z']+", text): left to right, a letter followed
\* by at least one more word character, taken greedily
RECURSIVE TokenizeFrom(_, _)
TokenizeFrom(text, i) ==
    LET start == NextTokenStart(text, i)
    IN  IF start > Len(text) THEN <<>>
        ELSE <<SubSeq(text, start, WordEnd(text, start))>>
                 \o TokenizeFrom(text, WordEnd(text, start) + 1)

tokenize(text) == TokenizeFrom(text, 1)

\* the number of occurrences of w in words
Occurrences(w, words) == Cardinality({i \in 1..Len(words) : words[i] = w})

\* the distinct elements of words in first-seen order (a Counter's key order)
RECURSIVE FirstSeen(_, _)
FirstSeen(words, seen) ==
    IF words = <<>> THEN seen
    ELSE IF Head(words) \in Range(seen)
         THEN FirstSeen(Tail(words), seen)
         ELSE FirstSeen(Tail(words), Append(seen, Head(words)))

\* w put after every element of sorted whose count is at least w's: the
\* stable sort by count, descending, of Counter.most_common()
RECURSIVE InsertByCount(_, _, _)
InsertByCount(w, sorted, words) ==
    IF sorted = <<>> THEN <<w>>
    ELSE IF Occurrences(Head(sorted), words) >= Occurrences(w, words)
         THEN <<Head(sorted)>> \o InsertByCount(w, Tail(sorted), words)
         ELSE <<w>> \o sorted

RECURSIVE SortByCount(_, _, _)
SortByCount(keys, sorted, words) ==
    IF keys = <<>> THEN sorted
    ELSE SortByCount(Tail(keys), InsertByCount(Head(keys), sorted, words), words)

\* [word for word, _ in Counter(vocabulary).most_common()]
most_common(vocabulary) == SortByCount(FirstSeen(vocabulary, <<>>), <<>>, vocabulary)

\* if not vocabulary: vocabulary = DEFAULT_CHOICES  (app.py:118-119)
OrDefault(vocabulary) == IF vocabulary = <<>> THEN DEFAULT_CHOICES ELSE vocabulary

\* app.py:117-119
Vocabulary(cleaned) == OrDefault(tokenize(cleaned))

\* app.py:121
CommonWords(cleaned) == most_common(Vocabulary(cleaned))

----------------------------------------------------------------------------
(* The random module                                                       *)

\* random._randbelow(k) at draw number pos
RandBelow(tape, pos, k) == tape[(pos % Len(tape)) + 1] % k

\* random.choice(seq): seq[_randbelow(len(seq))]; one draw
choice(seq, tape, pos) == seq[RandBelow(tape, pos, Len(seq)) + 1]

Swap(x, i, j) == [x EXCEPT ![i] = x[j], ![j] = x[i]]

\* random.shuffle(x): for i in reversed(range(1, len(x))):
\*     j = _randbelow(i + 1); x[i], x[j] = x[j], x[i]
\* (i is the 0-based index of the source); len(x) - 1 draws
RECURSIVE ShuffleFrom(_, _, _, _)
ShuffleFrom(x, i, tape, pos) ==
    IF i < 1 THEN x
    ELSE ShuffleFrom(Swap(x, i + 1, RandBelow(tape, pos, i + 1) + 1),
                     i - 1, tape, pos + 1)

shuffle(x, tape, pos) == ShuffleFrom(x, Len(x) - 1, tape, pos)

ShuffleDraws(x) == Max(Len(x) - 1, 0)

----------------------------------------------------------------------------
(* Question synthesis                                                      *)

\* distractors[:3] (app.py:85)
MaxDistractors == 3

\* the number of choices of a question (app.py:86)
NumChoices == 4

\* [word for word in vocabulary if word.lower() != correct.lower()]
Distractors(correct, vocabulary) ==
    SelectSeq(vocabulary, LAMBDA word : lower(word) # lower(correct))

\* while len(choices) < 4: choices.append(random.choice(DEFAULT_CHOICES))
RECURSIVE PadChoices(_, _, _)
PadChoices(choices, tape, pos) ==
    IF Len(choices) < NumChoices
    THEN PadChoices(Append(choices, choice(DEFAULT_CHOICES, tape, pos)), tape, pos + 1)
    ELSE choices

\* random.shuffle(choices); return choices  (app.py:88-89), the stream being
\* at pos before the padding, which made Len(padded) - taken draws
ShuffleChoices(padded, taken, tape, pos) ==
    [choices |-> shuffle(padded, tape, pos + (Len(padded) - taken)),
     pos     |-> pos + (Len(padded) - taken) + ShuffleDraws(padded)]

\* app.py:84-89, given the distractors of app.py:83
ChooseAmong(correct, distractors, tape, pos) ==
    ShuffleChoices(
        PadChoices(SubSeq(shuffle(distractors, tape, pos), 1,
                          Min(MaxDistractors, Len(distractors))) \o <<correct>>,
                   tape, pos + ShuffleDraws(distractors)),
        Min(MaxDistractors, Len(distractors)) + 1,
        tape, pos + ShuffleDraws(distractors))

\* app.py:82-89.  The value is the list returned and the position of the
\* random stream after the call.
build_choices(correct, vocabulary, tape, pos) ==
    ChooseAmong(correct, Distractors(correct, vocabulary), tape, pos)

\* mutation: a 1-based position taken for list.index
IndexOfOneBased(list, x) == Least({i \in 1..Len(list) : list[i] = x})

\* list.index(x), 0-based: the first position holding x
IndexOf(list, x) == Least({i \in 1..Len(list) : list[i] = x}) - 1

\* whether word occurs in sentence at index i, ignoring case
MatchesAt(sentence, word, i) ==
    /\ i + Len(word) - 1 <= Len(sentence)
    /\ \A j \in 1..Len(word) : LowerChar(sentence[i + j - 1]) = LowerChar(word[j])

\* the sentence with the Len(word) characters at index i replaced by the blank
BlankAt(sentence, word, i) ==
    SubSeq(sentence, 1, i - 1) \o Blank \o SubSeq(sentence, i + Len(word), Len(sentence))

\* re.compile(re.escape(word), re.IGNORECASE).sub("_____", sentence, count=1)
SubstituteFirst(sentence, word) ==
    IF \E i \in 1..Len(sentence) : MatchesAt(sentence, word, i)
    THEN BlankAt(sentence, word,
                 Least({i \in 1..Len(sentence) : MatchesAt(sentence, word, i)}))
    ELSE sentence

\* the question of app.py:101-105 and its "answer" entry (app.py:134, 148),
\* built being the value of build_choices
Question(question_text, correct_word, built) ==
    [question |-> [question     |-> question_text,
                   choices      |-> built.choices,
                   answer_index |-> IndexOf(built.choices, correct_word),
                   answer       |-> correct_word],
     pos      |-> built.pos]

\* app.py:92-105, with the "answer" entry of app.py:134
generate_question(sentence, correct_word, vocabulary, tape, pos) ==
    Question(SubstituteFirst(sentence, correct_word), correct_word,
             build_choices(correct_word, vocabulary, tape, pos))

----------------------------------------------------------------------------
(* Quiz assembly                                                           *)

\* len(word) > 3 (app.py:127)
MinAnswerLen == 3

\* the answers of the questions built so far, in lower case (app.py:128-129)
UsedAnswers(questions) == {lower(questions[i].answer) : i \in 1..Len(questions)}

\* app.py:127-129: the words of the sentence longer than 3 characters that
\* are no earlier question's answer, ignoring case
Candidates(sentence, used) ==
    SelectSeq(tokenize(sentence),
              LAMBDA word : Len(word) > MinAnswerLen /\ lower(word) \notin used)

RECURSIVE SentenceLoop(_, _, _, _, _, _, _)

\* app.py:135 and the next iteration, made being the value of generate_question
AppendQuestion(sentences, i, questions, num_questions, common_words, tape, made) ==
    SentenceLoop(sentences, i + 1, Append(questions, made.question),
                 num_questions, common_words, tape, made.pos)

\* app.py:130-135: one sentence, given its candidates
SentenceStep(sentences, i, questions, num_questions, common_words, tape, pos, candidates) ==
    IF candidates = <<>>
    THEN SentenceLoop(sentences, i + 1, questions, num_questions,
                      common_words, tape, pos)
    ELSE AppendQuestion(sentences, i, questions, num_questions, common_words, tape,
             generate_question(sentences[i], choice(candidates, tape, pos),
                               common_words, tape, pos + 1))

\* app.py:124-135: the loop over the sentences, from sentence number i on
SentenceLoop(sentences, i, questions, num_questions, common_words, tape, pos) ==
    IF i > Len(sentences) \/ Len(questions) >= num_questions
    THEN [questions |-> questions, pos |-> pos]
    ELSE SentenceStep(sentences, i, questions, num_questions, common_words, tape, pos,
                      Candidates(sentences[i], UsedAnswers(questions)))

\* app.py:139-150: one templated question, the stream being at pos
FillerQuestion(filler_word, common_words, tape, pos) ==
    Question(FillerPrompt, filler_word,
             build_choices(filler_word, common_words, tape, pos))

RECURSIVE FillerLoop(_, _, _, _, _)

AppendFiller(questions, num_questions, common_words, tape, made) ==
    FillerLoop(Append(questions, made.question), num_questions, common_words,
               tape, made.pos)

\* app.py:138-150: templated questions until the quiz is full
FillerLoop(questions, num_questions, common_words, tape, pos) ==
    IF Len(questions) >= num_questions
    THEN [questions |-> questions, pos |-> pos]
    ELSE AppendFiller(questions, num_questions, common_words, tape,
             FillerQuestion(choice(common_words, tape, pos), common_words,
                            tape, pos + 1))

\* for q in questions: q.pop("answer", None)  (app.py:152-153)
PopAnswer(q) ==
    [question |-> q.question, choices |-> q.choices, answer_index |-> q.answer_index]

\* app.py:152-158, filled being the value of the filler loop.  answers are
\* the entries app.py:152-153 pops, in question order.
Finish(cleaned, filled) ==
    [raised  |-> "none",
     message |-> "",
     quiz    |-> <<[source    |-> cleaned,
                    questions |-> [i \in 1..Len(filled.questions) |->
                                      PopAnswer(filled.questions[i])]]>>,
     answers |-> [i \in 1..Len(filled.questions) |-> filled.questions[i].answer],
     pos     |-> filled.pos]

\* app.py:138-158, natural being the value of the loop over the sentences
FillAndFinish(cleaned, natural, num_questions, common_words, tape) ==
    Finish(cleaned,
           FillerLoop(natural.questions, num_questions, common_words,
                      tape, natural.pos))

\* app.py:122-158
Assemble(cleaned, common_words, num_questions, tape, pos) ==
    FillAndFinish(cleaned,
                  SentenceLoop(Sentences(cleaned), 1, <<>>, num_questions,
                               common_words, tape, pos),
                  num_questions, common_words, tape)

\* mutation: material without a vocabulary word refused like empty material
QuizFromCleanedStrict(cleaned, num_questions, tape, pos) ==
    IF cleaned = <<>> \/ tokenize(cleaned) = <<>>
    THEN [raised  |-> "ValueError",
          message |-> "Please provide study material text or upload a supported file.",
          quiz    |-> <<>>, answers |-> <<>>, pos |-> pos]
    ELSE Assemble(cleaned, CommonWords(cleaned), num_questions, tape, pos)

\* app.py:110-158, cleaned being clean_text(text)
QuizFromCleaned(cleaned, num_questions, tape, pos) ==
    IF cleaned = <<>>
    THEN [raised  |-> "ValueError",
          message |-> "Please provide study material text or upload a supported file.",
          quiz    |-> <<>>, answers |-> <<>>, pos |-> pos]
    ELSE Assemble(cleaned, CommonWords(cleaned), num_questions, tape, pos)

\* app.py:108-158.  raised is "ValueError" or "none".
generate_quiz_from_text(text, num_questions, tape, pos) ==
    QuizFromCleaned(clean_text(text), num_questions, tape, pos)

----------------------------------------------------------------------------
(* File upload                                                             *)

\* werkzeug's secure_filename on a name made of ASCII letters, digits and
\* "._-" only: its last step, strip("._")
RECURSIVE secure_filename(_)
secure_filename(name) ==
    IF name # <<>> /\ name[1] \in {".", "_"} THEN secure_filename(Tail(name))
    ELSE IF name # <<>> /\ name[Len(name)] \in {".", "_"}
         THEN secure_filename(SubSeq(name, 1, Len(name) - 1))
         ELSE name

\* os.path.splitext(filename)[1] of a name without directory separators: from
\* the last dot on, unless only dots precede it
splitext(filename) ==
    LET dots == {i \in 1..Len(filename) : filename[i] = "."}
    IN  IF dots = {} THEN <<>>
        ELSE LET dotIndex == CHOOSE i \in dots : \A j \in dots : j <= i
             IN  IF \E k \in 1..(dotIndex - 1) : filename[k] # "."
                 THEN SubSeq(filename, dotIndex, Len(filename))
                 ELSE <<>>

\* app.py:57-75.  upload is <<>> (no file part) or <<file>>, file.parse being
\* what the document parser does with the bytes: "text" (it returns
\* file.text), "ValueError" or "Exception" (it raises one, the second being
\* any class that is no ValueError, such as PyPDF2's PdfReadError).
\* text is <<>> for None, else <<the text>>.
extract_text_from_file(upload) ==
    IF upload = <<>> \/ secure_filename(upload[1].filename) = <<>>
    THEN [raised |-> "none", message |-> "", text |-> <<>>]
    ELSE LET ext == lower(splitext(secure_filename(upload[1].filename)))
         IN  IF ext \notin ALLOWED_EXTENSIONS
             THEN [raised  |-> "ValueError",
                   message |-> "Unsupported file type. Please upload a PDF or PPT/PPTX file.",
                   text    |-> <<>>]
             ELSE IF upload[1].parse = "text"
                  THEN [raised |-> "none", message |-> "", text |-> <<upload[1].text>>]
                  ELSE [raised  |-> upload[1].parse,
                        message |-> "parser error",
                        text    |-> <<>>]

----------------------------------------------------------------------------
(* Request inputs                                                          *)

TextEmpty == <<>>

TextBlank ==
    <<" ","\n"," ">>

TextDigits ==
    <<"1","2"," ","3","4">>

TextHello ==
    <<"H","e","l","l","o"," ","w","o","r","l","d">>

TextCat ==
    <<"T","h","e"," ","c","a","t"," ","s","a","w"," ","t","h","e"," ","d","o",
      "g",".">>

TextOneWord ==
    <<"C","a","t","s"," ","e","a","t"," ","a"," ","l","o","t",".">>

TextBirds ==
    <<"B","i","r","d","s"," ","s","i","n","g"," ","s","o","n","g","s"," ","d",
      "a","i","l","y","."," "," ","B","i","r","d","s"," ","l","i","k","e"," ",
      "s","e","e","d","s"," ","m","u","c","h","."," ","Y","e","s",".">>

TextQuote ==
    <<"I","t","'","s"," ","9","a","m",";"," ","d","o","n","'","t"," ","p","a",
      "n","i","c"," ","n","o","w","!">>

TextMito ==
    <<"T","h","e"," ","m","i","t","o","c","h","o","n","d","r","i","a"," ","i",
      "s"," ","t","h","e"," ","p","o","w","e","r","h","o","u","s","e"," ","o",
      "f"," ","t","h","e"," ","c","e","l","l","."," ","P","h","o","t","o","s",
      "y","n","t","h","e","s","i","s"," ","o","c","c","u","r","s"," ","i","n",
      " ","c","h","l","o","r","o","p","l","a","s","t","s",".">>

\* pasted study material
Materials ==
    {TextEmpty, TextBlank, TextDigits, TextHello, TextCat, TextOneWord,
     TextBirds, TextQuote, TextMito}

\* the num_questions form field: <<>> when the field is absent
NumRaws ==
    {<<>>, <<<<"0">>>>, <<<<"2">>>>, <<<<"8">>>>, <<<<"1","1">>>>,
     <<<<"-","4">>>>, <<<<"x">>>>, <<<<" ","3"," ">>>>}

File(filename, parse, text) == [filename |-> filename, parse |-> parse, text |-> text]

NoRequest ==
    [op |-> "none", num_raw |-> <<>>, source_text |-> <<>>, upload |-> <<>>,
     form |-> <<>>]

GenerateRequest(num_raw, source_text, upload) ==
    [NoRequest EXCEPT !.op = "generate", !.num_raw = num_raw,
                      !.source_text = source_text, !.upload = upload]

\* POST /generate with pasted text only: every material with the count "2",
\* every value of the count with a material of one usable sentence, and the
\* longer materials with the count absent
TextRequests ==
    {GenerateRequest(<<<<"2">>>>, t, <<>>) : t \in Materials}
        \cup {GenerateRequest(n, TextOneWord, <<>>) : n \in NumRaws}
        \cup {GenerateRequest(<<>>, t, <<>>) :
                 t \in {TextHello, TextBirds, TextQuote, TextMito}}

\* POST /generate in a session: pasted text, or a file (with or without text)
SessionRequests ==
    {GenerateRequest(n, t, <<>>) : n \in {<<>>, <<<<"2">>>>}, t \in {TextDigits, TextCat}}
        \cup {GenerateRequest(<<<<"2">>>>, TextEmpty, <<>>),
              GenerateRequest(<<<<"2">>>>, TextHello,
                  <<File(<<>>, "text", TextCat)>>),
              GenerateRequest(<<<<"2">>>>, TextEmpty,
                  <<File(<<"n",".","p","d","f">>, "text", TextCat)>>),
              GenerateRequest(<<<<"2">>>>, TextHello,
                  <<File(<<"n",".","p","d","f">>, "text", TextEmpty)>>),
              GenerateRequest(<<<<"2">>>>, TextEmpty,
                  <<File(<<"n",".","p","d","f">>, "text", TextBlank)>>),
              GenerateRequest(<<<<"2">>>>, TextEmpty,
                  <<File(<<"n",".","P","D","F">>, "Exception", TextEmpty)>>),
              GenerateRequest(<<<<"2">>>>, TextHello,
                  <<File(<<"d",".","p","p","t","x">>, "ValueError", TextEmpty)>>),
              GenerateRequest(<<<<"2">>>>, TextHello,
                  <<File(<<"d",".","p","p","t">>, "Exception", TextEmpty)>>),
              GenerateRequest(<<<<"2">>>>, TextHello,
                  <<File(<<"e",".","d","o","c","x">>, "text", TextCat)>>),
              GenerateRequest(<<<<"2">>>>, TextEmpty,
                  <<File(<<".","p","d","f">>, "text", TextCat)>>)}

\* a q_<idx> form field: <<>> when absent
AnswerRaws == {<<>>, <<<<"x">>>>, <<<<"-","1">>>>, <<<<"2">>>>, <<<<" ","1"," ">>>>}

\* str(answer_index)
IndexText(i) == <<Digits[i + 1]>>

\* the POST /submit forms for a quiz: the answer key, one value in every
\* field, and the answer key with its first field replaced
Forms(questions) ==
    LET key == [i \in 1..Len(questions) |-> <<IndexText(questions[i].answer_index)>>]
    IN  {key}
            \cup {[i \in 1..Len(questions) |-> v] : v \in AnswerRaws}
            \cup {[i \in 1..Len(questions) |-> IF i = 1 THEN v ELSE key[i]] :
                     v \in AnswerRaws}

\* the streams of draws: every tape of TapeLen entries
Tapes == [1..TapeLen -> RandVals]

----------------------------------------------------------------------------
(* The handlers                                                            *)

\* the value of a missing num_questions field (app.py:168)
DefaultCountText == <<"5">>

\* the count used when the field is no integer (app.py:172)
DefaultCount == 5

\* the range the count is clamped to (app.py:173)
MinQuestions == 1

MaxQuestions == 10

\* app.py:168-172
ParseCount(num_raw) ==
    LET text == IF num_raw = <<>> THEN DefaultCountText ELSE num_raw[1]
    IN  IF IsIntLiteral(text) THEN IntValue(text) ELSE DefaultCount

\* mutation: the upper limit of app.py:173 left out
ClampCountNoUpper(n) == Max(MinQuestions, n)

\* max(1, min(num_questions, 10))  (app.py:173)
ClampCount(n) == Max(MinQuestions, Min(n, MaxQuestions))

\* extracted_text or source_text (app.py:184)
Material(extracted, source_text) ==
    IF extracted = <<>> \/ extracted[1] = <<>> THEN source_text ELSE extracted[1]

Render(template, message) == [kind |-> "render", target |-> template, flash |-> message]

Redirect(endpoint, message) == [kind |-> "redirect", target |-> endpoint, flash |-> message]

\* an exception left the handler: Flask answers 500
ServerError == [kind |-> "error", target |-> "500", flash |-> ""]

NoResponse == [kind |-> "none", target |-> "", flash |-> ""]

Init ==
    /\ session_quiz = <<>>
    /\ session_results = <<>>
    /\ answers = <<>>
    /\ rngTape \in Tapes
    /\ rngPos = 0
    /\ request = NoRequest
    /\ response = NoResponse

\* GET /  (app.py:161-163)
Index ==
    /\ request' = [NoRequest EXCEPT !.op = "index"]
    /\ response' = Render("page1_input.html", "")
    /\ UNCHANGED <<session_quiz, session_results, answers, rngTape, rngPos>>

\* mutation: the results dropped when the upload is rejected
GenerateExtractFailsClears(req, extracted) ==
    /\ extracted.raised # "none"
    /\ response' = IF extracted.raised = "ValueError"
                   THEN Render("page1_input.html", extracted.message)
                   ELSE ServerError
    /\ session_results' = <<>>
    /\ UNCHANGED <<session_quiz, answers, rngPos>>

\* POST /generate: the file cannot be read (app.py:178-182, and an
\* exception that is no ValueError leaving the handler)
GenerateExtractFails(req, extracted) ==
    /\ extracted.raised # "none"
    /\ response' = IF extracted.raised = "ValueError"
                   THEN Render("page1_input.html", extracted.message)
                   ELSE ServerError
    /\ UNCHANGED <<session_quiz, session_results, answers, rngPos>>

\* POST /generate: the material is unusable (app.py:186-190)
GenerateQuizFails(req, made) ==
    /\ made.raised = "ValueError"
    /\ response' = Render("page1_input.html", made.message)
    /\ rngPos' = made.pos % Len(rngTape)
    /\ UNCHANGED <<session_quiz, session_results, answers>>

\* mutation: session.pop("results", None) of app.py:193 left out
GenerateStoresKeepsResults(req, made) ==
    /\ made.raised = "none"
    /\ session_quiz' = made.quiz
    /\ answers' = made.answers
    /\ rngPos' = made.pos % Len(rngTape)
    /\ response' = Redirect("show_quiz", "")
    /\ UNCHANGED session_results

\* POST /generate: the quiz is stored (app.py:192-195)
GenerateStores(req, made) ==
    /\ made.raised = "none"
    /\ session_quiz' = made.quiz
    /\ session_results' = <<>>
    /\ answers' = made.answers
    /\ rngPos' = made.pos % Len(rngTape)
    /\ response' = Redirect("show_quiz", "")

\* app.py:186-195, made being the value of generate_quiz_from_text
GenerateQuiz(req, made) ==
    IF made.raised = "ValueError"
    THEN GenerateQuizFails(req, made)
    ELSE GenerateStores(req, made)

\* app.py:178-195, extracted being the value of extract_text_from_file
GenerateFrom(req, extracted) ==
    IF extracted.raised # "none"
    THEN GenerateExtractFails(req, extracted)
    ELSE GenerateQuiz(req,
             generate_quiz_from_text(Material(extracted.text, req.source_text),
                                     ClampCount(ParseCount(req.num_raw)),
                                     rngTape, rngPos))

\* POST /generate  (app.py:166-195)
Generate(req) ==
    /\ request' = req
    /\ UNCHANGED rngTape
    /\ GenerateFrom(req, extract_text_from_file(req.upload))

\* GET /quiz  (app.py:198-204)
ShowQuiz ==
    /\ request' = [NoRequest EXCEPT !.op = "show_quiz"]
    /\ response' = IF session_quiz = <<>>
                   THEN Redirect("index", "Generate a quiz first by providing study material.")
                   ELSE Render("page2_quiz.html", "")
    /\ UNCHANGED <<session_quiz, session_results, answers, rngTape, rngPos>>

\* GET /generate  (app.py:207-209)
RedirectToIndex ==
    /\ request' = [NoRequest EXCEPT !.op = "redirect_to_index"]
    /\ response' = Redirect("index", "")
    /\ UNCHANGED <<session_quiz, session_results, answers, rngTape, rngPos>>

\* the sentinel of an absent or unparsable answer (app.py:226)
Unanswered == -1

\* mutation: 0 instead of -1 for an answer that is absent or no integer
SelectedIndexZero(selected) ==
    IF selected = <<>> THEN 0
    ELSE IF IsIntLiteral(selected[1]) THEN IntValue(selected[1]) ELSE 0

\* app.py:222-226: int(selected), -1 on TypeError (None) or ValueError
SelectedIndex(selected) ==
    IF selected = <<>> THEN Unanswered
    ELSE IF IsIntLiteral(selected[1]) THEN IntValue(selected[1]) ELSE Unanswered

\* round(num / den) for num >= 0, den > 0: to the nearest integer, a tie to
\* the even one
Round(num, den) ==
    LET q == num \div den
        r == num % den
    IN  IF 2 * r < den THEN q
        ELSE IF 2 * r > den THEN q + 1
        ELSE IF q % 2 = 0 THEN q ELSE q + 1

\* mutation: the submitted index compared with the 1-based position of the answer
CountCorrectOneBased(questions, user_answers) ==
    Cardinality({i \in 1..Len(questions) :
                    user_answers[i] = questions[i].answer_index + 1})

\* the number of indexes i with user_answers[i] = questions[i].answer_index
\* (app.py:228-229)
CountCorrect(questions, user_answers) ==
    Cardinality({i \in 1..Len(questions) :
                    user_answers[i] = questions[i].answer_index})

\* app.py:219-239
Grade(quiz, form) ==
    LET questions == quiz.questions
        user_answers == [i \in 1..Len(questions) |-> SelectedIndex(form[i])]
        correct == CountCorrect(questions, user_answers)
        total == IF Len(questions) = 0 THEN 1 ELSE Len(questions)
    IN  [quiz         |-> quiz,
         user_answers |-> user_answers,
         correct      |-> correct,
         total        |-> total,
         score        |-> Round(100 * correct, total)]

\* POST /submit without a stored quiz  (app.py:214-217)
SubmitExpired ==
    /\ session_quiz = <<>>
    /\ request' = [NoRequest EXCEPT !.op = "submit"]
    /\ response' = Redirect("index", "Your session expired. Please generate a new quiz.")
    /\ UNCHANGED <<session_quiz, session_results, answers, rngTape, rngPos>>

\* POST /submit  (app.py:212-240)
Submit(form) ==
    /\ session_quiz # <<>>
    /\ request' = [NoRequest EXCEPT !.op = "submit", !.form = form]
    /\ session_results' = <<Grade(session_quiz[1], form)>>
    /\ response' = Redirect("show_results", "")
    /\ UNCHANGED <<session_quiz, answers, rngTape, rngPos>>

\* GET /results  (app.py:243-256)
ShowResults ==
    /\ request' = [NoRequest EXCEPT !.op = "show_results"]
    /\ response' = IF session_results = <<>>
                   THEN Redirect("index", "Take the quiz to see your results.")
                   ELSE Render("page3_result.html", "")
    /\ UNCHANGED <<session_quiz, session_results, answers, rngTape, rngPos>>

Next ==
    \/ Index
    \/ \E req \in SessionRequests : Generate(req)
    \/ ShowQuiz
    \/ RedirectToIndex
    \/ SubmitExpired
    \/ \E form \in Forms(IF session_quiz = <<>> THEN <<>> ELSE session_quiz[1].questions) :
           Submit(form)
    \/ ShowResults

Spec == Init /\ [][Next]_vars

\* the engine under every material and count: POST /generate only
NextEngine == \E req \in TextRequests : Generate(req)

SpecEngine == Init /\ [][NextEngine]_vars

----------------------------------------------------------------------------
(* Properties                                                              *)

\* the stored quiz's questions (<<>> when no quiz is stored)
StoredQuestions == IF session_quiz = <<>> THEN <<>> ELSE session_quiz[1].questions

\* the count a num_questions field stands for: its integer, and 5 for a field
\* that is absent or no integer
SubmittedCount(num_raw) ==
    CASE num_raw = <<>>                  -> 5
      [] num_raw = <<<<"0">>>>           -> 0
      [] num_raw = <<<<"2">>>>           -> 2
      [] num_raw = <<<<"8">>>>           -> 8
      [] num_raw = <<<<"1","1">>>>       -> 11
      [] num_raw = <<<<"-","4">>>>       -> 0 - 4
      [] num_raw = <<<<" ","3"," ">>>>   -> 3
      [] num_raw = <<<<"x">>>>           -> 5

\* whether some character of the text is not whitespace
NonBlank(text) == \E i \in 1..Len(text) : text[i] \notin Whitespace

\* the last request was a POST /generate of pasted text only
GeneratedFromText == request.op = "generate" /\ request.upload = <<>>

\* C1: for every submitted count n and every material that is not blank,
\* /generate stores a quiz of exactly min(max(n, 1), 10) questions (5 standing
\* for a count that is no integer).
C1_QuizHasRequestedCount ==
    (GeneratedFromText /\ NonBlank(request.source_text)) =>
        /\ response = Redirect("show_quiz", "")
        /\ session_quiz # <<>>
        /\ LET n == SubmittedCount(request.num_raw)
               clamped == IF n < 1 THEN 1 ELSE IF n > 10 THEN 10 ELSE n
           IN  Len(StoredQuestions) = clamped

\* C1's case: a count of 11 with material of one usable sentence and one
\* eligible word gives 10 questions, all but the first templated.
C1_Witness ==
    /\ GeneratedFromText
    /\ request.source_text = TextOneWord
    /\ request.num_raw = <<<<"1","1">>>>
    /\ Len(StoredQuestions) = 10
    /\ StoredQuestions[1].question # FillerPrompt
    /\ \A i \in 2..10 : StoredQuestions[i].question = FillerPrompt

\* C2: every question of the stored quiz, sentence-derived or templated, has
\* exactly 4 choices and an answer_index in 0..3 at which the choices hold
\* the word chosen as its answer.
C2_AnswerIndexPointsAtAnswer ==
    /\ Len(answers) = Len(StoredQuestions)
    /\ \A i \in 1..Len(StoredQuestions) :
          /\ Len(StoredQuestions[i].choices) = 4
          /\ StoredQuestions[i].answer_index \in 0..3
          /\ StoredQuestions[i].choices[StoredQuestions[i].answer_index + 1] = answers[i]

\* C2's case: a quiz with a sentence-derived and a templated question whose
\* answers the shuffle left at different positions.
C2_Witness ==
    \E i, j \in 1..Len(StoredQuestions) :
        /\ StoredQuestions[i].question # FillerPrompt
        /\ StoredQuestions[j].question = FillerPrompt
        /\ StoredQuestions[i].answer_index # StoredQuestions[j].answer_index
        /\ StoredQuestions[i].answer_index # 3

\* the vocabulary of the stored quiz (app.py:121 on its source)
StoredVocabulary == CommonWords(session_quiz[1].source)

\* the words of the vocabulary that differ from the target, one per spelling
\* ignoring case
DistinctOthers(target, vocabulary) ==
    {lower(vocabulary[k]) : k \in 1..Len(vocabulary)} \ {lower(target)}

\* the choices are pairwise distinct ignoring case
DistinctIgnoringCase(choices) ==
    \A a, b \in 1..Len(choices) : a # b => lower(choices[a]) # lower(choices[b])

\* C3: whenever the vocabulary holds at least 3 words that differ from the
\* target and from each other ignoring case, the 4 choices of the question
\* are pairwise distinct ignoring case.
C3_ChoicesDistinctIgnoringCase ==
    \A i \in 1..Len(StoredQuestions) :
        Cardinality(DistinctOthers(answers[i], StoredVocabulary)) >= 3
            => DistinctIgnoringCase(StoredQuestions[i].choices)

\* the message of the ValueError of app.py:111, flashed on the input page
NoUsableMaterial ==
    Render("page1_input.html",
           "Please provide study material text or upload a supported file.")

FillerPositions(choices) ==
    {a \in 1..Len(choices) : choices[a] \in Range(DEFAULT_CHOICES)}

\* C9: when fewer than 3 vocabulary words differ from the target, the choices
\* taken from the static filler list differ from the target and from each
\* other, and the target occurs exactly once among the 4 choices.
C9_FillersDistinct ==
    \A i \in 1..Len(StoredQuestions) :
        Len(Distractors(answers[i], StoredVocabulary)) < 3 =>
            LET choices == StoredQuestions[i].choices
            IN  /\ \A a \in FillerPositions(choices) : choices[a] # answers[i]
                /\ \A a, b \in FillerPositions(choices) :
                      a # b => choices[a] # choices[b]
                /\ Cardinality({a \in 1..Len(choices) : choices[a] = answers[i]}) = 1

\* whether a q_<idx> field is present and an integer
IsInteger(raw) == raw \notin {<<>>, <<<<"x">>>>}

\* the integer a q_<idx> field stands for
SubmittedAnswer(raw) ==
    CASE raw = <<<<"-","1">>>>       -> 0 - 1
      [] raw = <<<<"0">>>>           -> 0
      [] raw = <<<<"1">>>>           -> 1
      [] raw = <<<<"2">>>>           -> 2
      [] raw = <<<<"3">>>>           -> 3
      [] raw = <<<<" ","1"," ">>>>   -> 1

\* the last request was a POST /submit that found a stored quiz
Graded == request.op = "submit" /\ session_quiz # <<>>

\* C5: grading a stored quiz never fails: it records one answer per question,
\* -1 for a field that is absent or no integer, and counts as correct exactly
\* the questions whose field parses to the question's answer_index.
C5_GradingIsTotal ==
    Graded =>
        /\ response = Redirect("show_results", "")
        /\ session_results # <<>>
        /\ Len(session_results[1].user_answers) = Len(StoredQuestions)
        /\ \A i \in 1..Len(StoredQuestions) :
              session_results[1].user_answers[i] =
                  IF IsInteger(request.form[i])
                  THEN SubmittedAnswer(request.form[i])
                  ELSE 0 - 1
        /\ session_results[1].correct =
              Cardinality({i \in 1..Len(StoredQuestions) :
                  /\ IsInteger(request.form[i])
                  /\ SubmittedAnswer(request.form[i]) = StoredQuestions[i].answer_index})

\* C5's case: a form with an absent field, for a question whose answer_index
\* is 0, and a correct field has been graded.
C5_Witness ==
    /\ Graded
    /\ Len(StoredQuestions) >= 2
    /\ request.form[1] = <<>>
    /\ StoredQuestions[1].answer_index = 0
    /\ session_results[1].user_answers[1] = 0 - 1
    /\ session_results[1].correct = Len(StoredQuestions) - 1

\* C6: when every submitted answer is the question's answer_index, correct
\* and total are the number of questions and the score is 100.
C6_AllCorrectScores100 ==
    (Graded /\ \A i \in 1..Len(StoredQuestions) :
                  /\ IsInteger(request.form[i])
                  /\ SubmittedAnswer(request.form[i]) = StoredQuestions[i].answer_index)
        => /\ session_results[1].correct = Len(StoredQuestions)
           /\ session_results[1].total = Len(StoredQuestions)
           /\ session_results[1].score = 100

\* C6's case: the answer key of a quiz of 5 questions has been graded.
C6_Witness ==
    /\ Graded
    /\ Len(StoredQuestions) = 5
    /\ \A i \in 1..5 : request.form[i] = <<IndexText(StoredQuestions[i].answer_index)>>
    /\ session_results[1].score = 100

\* the file of the request has a supported extension and cannot be parsed
UnparsableUpload(req) ==
    /\ req.upload # <<>>
    /\ lower(splitext(secure_filename(req.upload[1].filename))) \in ALLOWED_EXTENSIONS
    /\ req.upload[1].parse # "text"

\* C7: when the uploaded .pdf/.ppt/.pptx file cannot be parsed, /generate
\* flashes a message on the input page; no exception leaves the handler.
C7_ParserErrorIsReported ==
    (request.op = "generate" /\ UnparsableUpload(request)) =>
        /\ response.kind = "render"
        /\ response.target = "page1_input.html"
        /\ response.flash # ""

\* the file of the request is refused for its extension
UnsupportedUpload(req) ==
    /\ req.upload # <<>>
    /\ secure_filename(req.upload[1].filename) # <<>>
    /\ lower(splitext(secure_filename(req.upload[1].filename))) \notin ALLOWED_EXTENSIONS

\* the material of the request is blank: no file is read, or the file read
\* holds no text, and the pasted text is blank; or the file read holds only
\* whitespace
UnusableMaterial(req) ==
    IF req.upload = <<>> \/ secure_filename(req.upload[1].filename) = <<>>
    THEN ~NonBlank(req.source_text)
    ELSE /\ ~UnsupportedUpload(req)
         /\ req.upload[1].parse = "text"
         /\ IF req.upload[1].text = <<>>
            THEN ~NonBlank(req.source_text)
            ELSE ~NonBlank(req.upload[1].text)

\* C8: a /generate request that fails with a user-correctable error (a file
\* of an unsupported extension, or unusable material) flashes a message and
\* leaves the stored quiz and the stored results as they were.
C8_RejectedGenerateKeepsSession ==
    [][(request'.op = "generate"
            /\ (UnsupportedUpload(request') \/ UnusableMaterial(request')))
        => /\ response'.kind = "render"
           /\ response'.target = "page1_input.html"
           /\ response'.flash # ""
           /\ session_quiz' = session_quiz
           /\ session_results' = session_results]_vars

\* C8's case: a .docx file sent with valid pasted text has been rejected while
\* a quiz and its results were stored.
C8_Witness ==
    /\ request.op = "generate"
    /\ UnsupportedUpload(request)
    /\ request.source_text = TextHello
    /\ response.flash = "Unsupported file type. Please upload a PDF or PPT/PPTX file."
    /\ session_quiz # <<>>
    /\ session_results # <<>>

\* C10: whenever results are stored, the quiz inside them is the stored quiz;
\* so after a successful /generate no results are stored and /results
\* redirects to the input page, and /submit or /quiz without a stored quiz
\* redirects to the input page and stores nothing.
C10_ResultsBelongToStoredQuiz ==
    /\ session_results # <<>> =>
          session_quiz # <<>> /\ session_results[1].quiz = session_quiz[1]
    /\ (request.op = "generate" /\ response = Redirect("show_quiz", "")) =>
          session_results = <<>>
    /\ (request.op = "show_results" /\ session_results = <<>>) =>
          response.kind = "redirect" /\ response.target = "index"
    /\ (request.op \in {"submit", "show_quiz"} /\ session_quiz = <<>>) =>
          /\ response.kind = "redirect" /\ response.target = "index"
          /\ session_results = <<>>

\* C10's case: with a quiz stored and no results, /results has redirected to
\* the input page.
C10_Witness ==
    /\ request.op = "show_results"
    /\ session_quiz # <<>>
    /\ session_results = <<>>
    /\ response = Redirect("index", "Take the quiz to see your results.")

====
